---- MODULE Spec2Model ----
(***************************************************************************)
(* runner.py: the container runner of a polling bot.  main() builds the    *)
(* Bot client (_build_bot), starts a two-route health listener, patches    *)
(* the imported module `app` (bot.py) and hands over to                    *)
(* app.dp.start_polling; the listener is cleaned up when polling ends.     *)
(*                                                                         *)
(* One behaviour of the model is one process in which main() is invoked    *)
(* sequentially up to MaxInvocations times.  The module `app` (its bot,    *)
(* its dispatcher, the _KOYEB_ROUTER_INCLUDED flag) lives across the       *)
(* invocations; the locals of main() and _build_bot() are fresh in each.   *)
(* Calls into aiohttp / aiogram that may raise take their outcome from     *)
(* Outcomes; "raise" stands for an exception derived from Exception.       *)
(***************************************************************************)
EXTENDS Integers, Sequences, FiniteSets, TLC

\* ---------------------------------------------------------------- bounds
\* number of sequential invocations of main() in the process
MaxInvocations == 2
\* longest PORT environment string that is enumerated
MaxPortLen == 2

\* ---------------------------------------------------------------- values
\* Python's None / a missing attribute, and a str value
None == [kind |-> "None"]
Str(s) == [kind |-> "str", val |-> s]

\* truthiness of None and of a str, as `or` and `not` use it
Truthy(v) == v.kind = "str" /\ Len(v.val) > 0

\* the values os.getenv("BOT_TOKEN") can give
BotTokenEnvValues == {None, Str(<<>>), Str(<<"e", "n", "v">>)}
\* the values getattr(app, "API_TOKEN", None) can give
ApiTokenValues == {None, Str(<<>>), Str(<<"a", "p", "p">>)}

\* characters of the enumerated PORT strings: digits, blank, sign, a letter
PortChars == {"8", "0", " ", "-", "x"}
RECURSIVE SeqsUpTo(_, _)
SeqsUpTo(S, n) ==
    IF n = 0 THEN {<<>>}
    ELSE LET shorter == SeqsUpTo(S, n - 1)
         IN  shorter \cup {Append(s, c) : s \in {t \in shorter : Len(t) = n - 1}, c \in S}
\* the values os.getenv("PORT") without a default can give
PortEnvValues == {None} \cup {Str(s) : s \in SeqsUpTo(PortChars, MaxPortLen)}

\* the default of os.getenv("PORT", "8000")
DefaultPortStr == <<"8", "0", "0", "0">>

Outcomes == {"ok", "raise"}

\* ------------------------------------------------------------ int(str)
Whitespace == {" "}
Digits == <<"0", "1", "2", "3", "4", "5", "6", "7", "8", "9">>
IsDigit(c) == \E i \in 1..10 : Digits[i] = c
DigitVal(c) == (CHOOSE i \in 1..10 : Digits[i] = c) - 1

RECURSIVE LStrip(_)
LStrip(s) == IF s # <<>> /\ Head(s) \in Whitespace THEN LStrip(Tail(s)) ELSE s
RECURSIVE RStrip(_)
RStrip(s) ==
    IF s # <<>> /\ s[Len(s)] \in Whitespace THEN RStrip(SubSeq(s, 1, Len(s) - 1)) ELSE s

RECURSIVE DigitsValue(_, _)
DigitsValue(s, acc) ==
    IF s = <<>> THEN acc ELSE DigitsValue(Tail(s), 10 * acc + DigitVal(Head(s)))

\* int(s) of a str: surrounding whitespace is stripped, one optional sign,
\* then at least one decimal digit; anything else is a ValueError.
IntParse(s) ==
    LET t == RStrip(LStrip(s))
        signed == t # <<>> /\ Head(t) \in {"+", "-"}
        body == IF signed THEN Tail(t) ELSE t
        good == body # <<>> /\ \A i \in 1..Len(body) : IsDigit(body[i])
    IN  IF good
        THEN [ok |-> TRUE,
              val |-> IF signed /\ Head(t) = "-" THEN 0 - DigitsValue(body, 0)
                      ELSE DigitsValue(body, 0)]
        ELSE [ok |-> FALSE, val |-> 0]

\* a lookup that always gives the default
GetenvDefault_AlwaysDefault(v, default) == default

\* os.getenv(name, default)
GetenvDefault(v, default) == IF v = None THEN default ELSE v.val

\* ports a TCP socket can be bound to
ValidPort(p) == p \in 0..65535

\* ------------------------------------------------------- _build_bot parts
\* a resolution that forgets the fallback to app.API_TOKEN
ResolveToken_EnvOnly(envTok, apiTok) == envTok

\* token = os.getenv("BOT_TOKEN") or getattr(app, "API_TOKEN", None)
ResolveToken(envTok, apiTok) == IF Truthy(envTok) THEN envTok ELSE apiTok

\* parameter names inspect.signature(AiohttpSession.__init__) may report
ParamNames == {"connector", "trust_env", "kwargs"}
\* where the introspection block may raise: nowhere, in inspect.signature,
\* in the `"connector" in params` test, or in the `"trust_env" in params` test
FailPoints == {"none", "signature", "connector_test", "trust_env_test"}

\* kwargs as the try block (lines 43-49) has built it when it completes or
\* raises at failAt: the connector entry is added before the trust_env test
KwargsBuilt(ps, conn, failAt) ==
    LET k0 == {}
        k1 == IF conn # "None" /\ "connector" \in ps THEN k0 \cup {"connector"} ELSE k0
        k2 == IF "trust_env" \in ps THEN k1 \cup {"trust_env"} ELSE k1
    IN  CASE failAt = "none" -> k2
          [] failAt = "trust_env_test" -> k1
          [] OTHER -> k0

\* a probe whose except clause keeps what the try block had built
ProbeKwargs_NoReset(ps, conn, failAt) == KwargsBuilt(ps, conn, failAt)

\* the whole probe: the except clause (lines 50-52) resets kwargs to {}
ProbeKwargs(ps, conn, failAt) ==
    IF failAt = "none" THEN KwargsBuilt(ps, conn, failAt) ELSE {}

\* ------------------------------------------------------- health listener
Methods == {"GET", "POST"}
Paths == {"/", "/health", "/other"}

\* router.add_get(path, handler): one more GET route
AddGet(rs, path, handler) ==
    rs \cup {[method |-> "GET", path |-> path, handler |-> handler]}

\* an application with the "/" route alone
HealthRoutes_RootOnly == AddGet({}, "/", "_health")

\* the two add_get calls of main(), lines 77-78
HealthRoutes == AddGet(AddGet({}, "/", "_health"), "/health", "_health")

\* async def _health(_request): return web.Response(text="ok")
HealthResponse == [status |-> 200, body |-> "ok", handler |-> "_health"]

\* the answer of the application to one request: that of the handler of the
\* matching route, 405 for a known path with another method, 404 for an
\* unknown path
Dispatch(rs, method, path) ==
    IF \E r \in rs : r.method = method /\ r.path = path
    THEN HealthResponse
    ELSE IF \E r \in rs : r.path = path
         THEN [status |-> 405, body |-> "", handler |-> "none"]
         ELSE [status |-> 404, body |-> "", handler |-> "none"]

NoRequest == [method |-> "none", path |-> "none"]
NoResponse == [status |-> 0, body |-> "", handler |-> "none"]

\* ------------------------------------------------------------------ state
VARIABLES
    env_BOT_TOKEN,   \* os.environ["BOT_TOKEN"], None when unset
    env_PORT,        \* os.environ["PORT"], None when unset
    app_API_TOKEN,   \* app.API_TOKEN, None when missing
    app_on_startup,  \* hasattr(app, "on_startup")
    app_bot,         \* app.bot: 0 the module's own, n the Bot built by invocation n
    app_flag,        \* getattr(app, "_KOYEB_ROUTER_INCLUDED", False)
    includeCalls,    \* calls of app.dp.include_router in the process
    registerCalls,   \* calls of app.dp.startup.register in the process
    inv,             \* invocations of main() started so far
    pc,              \* position of the running invocation
    result,          \* how the invocation ended: "none", "returned" or the exception
    token,           \* _build_bot: token
    connector,       \* _build_bot: connector
    params,          \* _build_bot: names in the signature
    failAt,          \* _build_bot: where the introspection raised
    kwargs,          \* _build_bot: kwargs
    bot,             \* main: bot (0 while not built)
    port,            \* main: port
    routes,          \* health_app.router
    listener,        \* health_runner / health_site: none, created, setup, serving, cleaned, cleanup_failed
    sitePort,        \* the port health_site was started on (-1 while not started)
    siteHost,        \* the host health_site was started on
    botAssign,       \* outcome of `app.bot = bot` in this invocation
    routerResult,    \* outcome of the router block in this invocation
    hookResult,      \* outcome of the hook block in this invocation
    polledBot,       \* the argument of app.dp.start_polling (0 while not called)
    pollOutcome,     \* how start_polling ended
    cleanupCalls,    \* calls of health_runner.cleanup() in this invocation
    cleanupOutcome,  \* how the cleanup call ended
    atStart,         \* the module state when the invocation started
    lastRequest,     \* the last request the listener got
    lastResponse     \* and its answer

appVars == <<app_API_TOKEN, app_on_startup, app_bot, app_flag, includeCalls, registerCalls>>
envVars == <<env_BOT_TOKEN, env_PORT>>
buildVars == <<token, connector, params, failAt, kwargs>>
listenerVars == <<routes, listener, sitePort, siteHost>>
stepVars == <<botAssign, routerResult, hookResult>>
pollVars == <<polledBot, pollOutcome, cleanupCalls, cleanupOutcome>>
httpVars == <<lastRequest, lastResponse>>
vars == <<envVars, appVars, inv, pc, result, buildVars, bot, port, listenerVars,
          stepVars, pollVars, atStart, httpVars>>

\* what of the module `app` main() may change
AppState == [bot |-> app_bot, flag |-> app_flag,
             includeCalls |-> includeCalls, registerCalls |-> registerCalls]

\* the locals of a fresh invocation
FreshLocals ==
    /\ token = None /\ connector = "None" /\ params = {} /\ failAt = "none" /\ kwargs = {}
    /\ bot = 0 /\ port = -1
    /\ routes = {} /\ listener = "none" /\ sitePort = -1 /\ siteHost = "none"
    /\ botAssign = "none" /\ routerResult = "none" /\ hookResult = "none"
    /\ polledBot = 0 /\ pollOutcome = "none" /\ cleanupCalls = 0 /\ cleanupOutcome = "none"
    /\ lastRequest = NoRequest /\ lastResponse = NoResponse

\* a new invocation starts with fresh locals
ResetLocals ==
    /\ token' = None /\ connector' = "None" /\ params' = {} /\ failAt' = "none"
    /\ kwargs' = {}
    /\ bot' = 0 /\ port' = -1
    /\ routes' = {} /\ listener' = "none" /\ sitePort' = -1 /\ siteHost' = "none"
    /\ botAssign' = "none" /\ routerResult' = "none" /\ hookResult' = "none"
    /\ polledBot' = 0 /\ pollOutcome' = "none" /\ cleanupCalls' = 0
    /\ cleanupOutcome' = "none"
    /\ lastRequest' = NoRequest /\ lastResponse' = NoResponse

\* the process after `import bot as app`, before main() runs
Init ==
    /\ env_BOT_TOKEN \in BotTokenEnvValues
    /\ env_PORT \in PortEnvValues
    /\ app_API_TOKEN \in ApiTokenValues
    /\ app_on_startup \in BOOLEAN
    /\ app_bot = 0 /\ app_flag = FALSE /\ includeCalls = 0 /\ registerCalls = 0
    /\ inv = 0 /\ pc = "idle" /\ result = "none"
    /\ atStart = AppState
    /\ FreshLocals


\* ---------------------------------------------------------------- actions
\* main() is invoked (asyncio.run(main()), or a harness calling it again)
Start ==
    /\ pc \in {"idle", "done"}
    /\ inv < MaxInvocations
    /\ inv' = inv + 1
    /\ pc' = "token"
    /\ result' = "none"
    /\ atStart' = AppState
    /\ ResetLocals
    /\ UNCHANGED <<envVars, appVars>>

\* _build_bot, lines 29-31: resolve the token or raise RuntimeError
BuildToken ==
    /\ pc = "token"
    /\ token' = ResolveToken(env_BOT_TOKEN, app_API_TOKEN)
    /\ IF ~Truthy(token')
       THEN pc' = "done" /\ result' = "RuntimeError"
       ELSE pc' = "connector" /\ result' = result
    /\ UNCHANGED <<envVars, appVars, inv, connector, params, failAt, kwargs, bot, port,
                   listenerVars, stepVars, pollVars, atStart, httpVars>>

\* _build_bot, lines 34-39: the IPv4 connector, None when its creation raises
BuildConnector ==
    /\ pc = "connector"
    /\ \E o \in Outcomes : connector' = IF o = "ok" THEN "TCPConnector" ELSE "None"
    /\ pc' = "probe"
    /\ UNCHANGED <<envVars, appVars, inv, result, token, params, failAt, kwargs, bot, port,
                   listenerVars, stepVars, pollVars, atStart, httpVars>>

\* _build_bot, lines 42-52: probe the signature of AiohttpSession.__init__
BuildKwargs ==
    /\ pc = "probe"
    /\ \E ps \in SUBSET ParamNames, f \in FailPoints :
          /\ params' = ps
          /\ failAt' = f
          /\ kwargs' = ProbeKwargs(ps, connector, f)
    /\ pc' = "session"
    /\ UNCHANGED <<envVars, appVars, inv, result, token, connector, bot, port,
                   listenerVars, stepVars, pollVars, atStart, httpVars>>

\* _build_bot, lines 54-60: AiohttpSession(**kwargs) and Bot(...); the locals of
\* _build_bot end with it
BuildSession ==
    /\ pc = "session"
    /\ \E o \in Outcomes :
          IF o = "ok"
          THEN bot' = inv /\ pc' = "port" /\ result' = result
          ELSE bot' = bot /\ pc' = "done" /\ result' = "ConstructError"
    /\ token' = None /\ connector' = "None" /\ params' = {} /\ failAt' = "none" /\ kwargs' = {}
    /\ UNCHANGED <<envVars, appVars, inv, port, listenerVars, stepVars, pollVars,
                   atStart, httpVars>>

\* main, line 70: port = int(os.getenv("PORT", "8000"))
ReadPort ==
    /\ pc = "port"
    /\ LET r == IntParse(GetenvDefault(env_PORT, DefaultPortStr))
       IN  IF r.ok
           THEN port' = r.val /\ pc' = "setup" /\ result' = result
           ELSE port' = port /\ pc' = "done" /\ result' = "ValueError"
    /\ UNCHANGED <<envVars, appVars, inv, buildVars, bot, listenerVars, stepVars, pollVars,
                   atStart, httpVars>>

\* main, lines 72-81: the application with its two routes, and runner.setup()
SetupListener ==
    /\ pc = "setup"
    /\ routes' = HealthRoutes
    /\ \E o \in Outcomes :
          IF o = "ok"
          THEN listener' = "setup" /\ pc' = "site" /\ result' = result
          ELSE listener' = "created" /\ pc' = "done" /\ result' = "SetupError"
    /\ UNCHANGED <<envVars, appVars, inv, buildVars, bot, port, sitePort, siteHost,
                   stepVars, pollVars, atStart, httpVars>>

\* a start whose failure is swallowed like the later steps' failures
StartSite_IgnoresFailure ==
    /\ pc = "site"
    /\ \E o \in Outcomes :
          /\ o = "ok" => ValidPort(port)
          /\ IF o = "ok"
             THEN listener' = "serving" /\ sitePort' = port /\ siteHost' = "0.0.0.0"
             ELSE UNCHANGED <<listener, sitePort, siteHost>>
    /\ pc' = "patch"
    /\ UNCHANGED <<envVars, appVars, inv, result, buildVars, bot, port, routes,
                   stepVars, pollVars, atStart, httpVars>>

\* main, lines 82-83: TCPSite(host="0.0.0.0", port=port).start(); binding can
\* fail, and does for a port outside 0..65535
StartSite ==
    /\ pc = "site"
    /\ \E o \in Outcomes :
          /\ o = "ok" => ValidPort(port)
          /\ IF o = "ok"
             THEN /\ listener' = "serving" /\ sitePort' = port /\ siteHost' = "0.0.0.0"
                  /\ pc' = "patch" /\ result' = result
             ELSE /\ UNCHANGED <<listener, sitePort, siteHost>>
                  /\ pc' = "done" /\ result' = "StartError"
    /\ UNCHANGED <<envVars, appVars, inv, buildVars, bot, port, routes,
                   stepVars, pollVars, atStart, httpVars>>

\* a patch whose failure leaves main()
PatchBot_Fatal ==
    /\ pc = "patch"
    /\ \E o \in Outcomes :
          /\ botAssign' = o
          /\ app_bot' = IF o = "ok" THEN bot ELSE app_bot
          /\ IF o = "ok"
             THEN pc' = "router" /\ result' = result
             ELSE pc' = "done" /\ result' = "PatchError"
    /\ UNCHANGED <<envVars, app_API_TOKEN, app_on_startup, app_flag, includeCalls,
                   registerCalls, inv, buildVars, bot, port, listenerVars,
                   routerResult, hookResult, pollVars, atStart, httpVars>>

\* a patch that binds a local name and leaves app.bot as it was
PatchBot_LocalOnly ==
    /\ pc = "patch"
    /\ \E o \in Outcomes : botAssign' = o
    /\ pc' = "router"
    /\ UNCHANGED <<envVars, appVars, inv, result, buildVars, bot, port, listenerVars,
                   routerResult, hookResult, pollVars, atStart, httpVars>>

\* main, lines 85-89: app.bot = bot, a failure of the store is swallowed
PatchBot ==
    /\ pc = "patch"
    /\ \E o \in Outcomes :
          /\ botAssign' = o
          /\ app_bot' = IF o = "ok" THEN bot ELSE app_bot
    /\ pc' = "router"
    /\ UNCHANGED <<envVars, app_API_TOKEN, app_on_startup, app_flag, includeCalls,
                   registerCalls, inv, result, buildVars, bot, port, listenerVars,
                   routerResult, hookResult, pollVars, atStart, httpVars>>

\* a router block that never records the inclusion
IncludeRouter_NoFlag ==
    /\ pc = "router"
    /\ IF ~app_flag
       THEN /\ \E o \in Outcomes : routerResult' = o
            /\ includeCalls' = includeCalls + 1
            /\ UNCHANGED app_flag
       ELSE /\ routerResult' = "skipped"
            /\ UNCHANGED <<includeCalls, app_flag>>
    /\ pc' = "hook"
    /\ UNCHANGED <<envVars, app_API_TOKEN, app_on_startup, app_bot, registerCalls,
                   inv, result, buildVars, bot, port, listenerVars,
                   botAssign, hookResult, pollVars, atStart, httpVars>>

\* main, lines 91-101: include the router unless the flag is set; the flag is
\* set whether or not include_router raised.  The getattr with a default and
\* the store of the runner's own attribute on the module do not raise.
IncludeRouter ==
    /\ pc = "router"
    /\ IF ~app_flag
       THEN /\ \E o \in Outcomes : routerResult' = o
            /\ includeCalls' = includeCalls + 1
            /\ app_flag' = TRUE
       ELSE /\ routerResult' = "skipped"
            /\ UNCHANGED <<includeCalls, app_flag>>
    /\ pc' = "hook"
    /\ UNCHANGED <<envVars, app_API_TOKEN, app_on_startup, app_bot, registerCalls,
                   inv, result, buildVars, bot, port, listenerVars,
                   botAssign, hookResult, pollVars, atStart, httpVars>>

\* main, lines 103-111: register app.on_startup when the module has one
RegisterHook ==
    /\ pc = "hook"
    /\ IF app_on_startup
       THEN /\ \E o \in Outcomes : hookResult' = o
            /\ registerCalls' = registerCalls + 1
       ELSE /\ hookResult' = "absent"
            /\ UNCHANGED registerCalls
    /\ pc' = "startpoll"
    /\ UNCHANGED <<envVars, app_API_TOKEN, app_on_startup, app_bot, app_flag, includeCalls,
                   inv, result, buildVars, bot, port, listenerVars,
                   botAssign, routerResult, pollVars, atStart, httpVars>>

\* main, line 114: app.dp.start_polling(bot) is called and awaited
StartPolling ==
    /\ pc = "startpoll"
    /\ polledBot' = bot
    /\ pc' = "polling"
    /\ UNCHANGED <<envVars, appVars, inv, result, buildVars, bot, port, listenerVars,
                   stepVars, pollOutcome, cleanupCalls, cleanupOutcome, atStart, httpVars>>

\* main, line 114: the awaited call returns or raises
PollingEnds ==
    /\ pc = "polling"
    /\ \E o \in Outcomes : pollOutcome' = o
    /\ pc' = "cleanup"
    /\ UNCHANGED <<envVars, appVars, inv, result, buildVars, bot, port, listenerVars,
                   stepVars, polledBot, cleanupCalls, cleanupOutcome, atStart, httpVars>>

\* a finally clause without the inner try: a failing cleanup() replaces the outcome
Cleanup_Propagates ==
    /\ pc = "cleanup"
    /\ \E o \in Outcomes :
          /\ cleanupOutcome' = o
          /\ listener' = IF o = "ok" THEN "cleaned" ELSE "cleanup_failed"
          /\ result' = IF o = "raise" THEN "CleanupError"
                       ELSE IF pollOutcome = "ok" THEN "returned" ELSE "PollingError"
    /\ cleanupCalls' = cleanupCalls + 1
    /\ pc' = "done"
    /\ UNCHANGED <<envVars, appVars, inv, buildVars, bot, port, routes, sitePort, siteHost,
                   stepVars, polledBot, pollOutcome, atStart, httpVars>>

\* main, lines 115-119: the finally clause; a failure of cleanup() is swallowed
\* and main() ends the way the polling call ended
Cleanup ==
    /\ pc = "cleanup"
    /\ \E o \in Outcomes :
          /\ cleanupOutcome' = o
          /\ listener' = IF o = "ok" THEN "cleaned" ELSE "cleanup_failed"
    /\ cleanupCalls' = cleanupCalls + 1
    /\ result' = IF pollOutcome = "ok" THEN "returned" ELSE "PollingError"
    /\ pc' = "done"
    /\ UNCHANGED <<envVars, appVars, inv, buildVars, bot, port, routes, sitePort, siteHost,
                   stepVars, polledBot, pollOutcome, atStart, httpVars>>

\* a request reaches the started listener and is answered through the router
Request ==
    /\ listener = "serving"
    /\ \E m \in Methods, p \in Paths :
          /\ lastRequest' = [method |-> m, path |-> p]
          /\ lastResponse' = Dispatch(routes, m, p)
    /\ UNCHANGED <<envVars, appVars, inv, pc, result, buildVars, bot, port, listenerVars,
                   stepVars, pollVars, atStart>>

Next ==
    \/ Start
    \/ BuildToken
    \/ BuildConnector
    \/ BuildKwargs
    \/ BuildSession
    \/ ReadPort
    \/ SetupListener
    \/ StartSite
    \/ PatchBot
    \/ IncludeRouter
    \/ RegisterHook
    \/ StartPolling
    \/ PollingEnds
    \/ Cleanup
    \/ Request

Spec == Init /\ [][Next]_vars

\* ----------------------------------------------------------------- claims
\* positions of main() after the router block / inside _build_bot
AfterRouter == {"hook", "startpoll", "polling", "cleanup"}
InBuildBot == {"token", "connector", "probe", "session"}

\* C1: over all invocations of main() in the process include_router is called
\* at most once: the invocation that finds the flag unset calls it and sets
\* the flag, every later one finds the flag set and skips the call.
C1_RouterIncludedAtMostOnce ==
    /\ includeCalls <= 1
    /\ app_flag <=> includeCalls = 1
    /\ routerResult \in {"ok", "raise"} =>
          ~atStart.flag /\ app_flag /\ includeCalls = atStart.includeCalls + 1
    /\ pc \in AfterRouter /\ atStart.flag =>
          routerResult = "skipped" /\ includeCalls = atStart.includeCalls

C1_Witness ==
    /\ inv = 2 /\ pc = "polling"
    /\ routerResult = "skipped" /\ includeCalls = 1 /\ app_flag

\* C2: when the module defines on_startup, app.dp.startup.register is called
\* at most once over all invocations of main() in the process.
C2_HookRegisteredAtMostOnce == app_on_startup => registerCalls <= 1

\* C3: main() fails with the RuntimeError of _build_bot exactly when BOT_TOKEN
\* is unset or empty and app.API_TOKEN is missing or falsy, a non-empty
\* BOT_TOKEN is the token used, and the failing invocation has had no side
\* effect: no listener, no route, app untouched, no polling.
C3_TokenErrorExactlyWhenUnresolvable ==
    /\ pc \notin {"idle", "token"} =>
          ((result = "RuntimeError") <=> (~Truthy(env_BOT_TOKEN) /\ ~Truthy(app_API_TOKEN)))
    /\ pc \in {"connector", "probe", "session"} =>
          /\ Truthy(token)
          /\ Truthy(env_BOT_TOKEN) => token = env_BOT_TOKEN
          /\ ~Truthy(env_BOT_TOKEN) => token = app_API_TOKEN
    /\ result = "RuntimeError" =>
          /\ pc = "done"
          /\ bot = 0 /\ listener = "none" /\ routes = {} /\ sitePort = -1
          /\ AppState = atStart
          /\ botAssign = "none" /\ routerResult = "none" /\ hookResult = "none"
          /\ polledBot = 0 /\ cleanupCalls = 0

C3_Witness ==
    /\ result = "RuntimeError" /\ inv = 2
    /\ env_BOT_TOKEN = Str(<<>>) /\ app_API_TOKEN = None

\* C4: once start_polling has returned or raised, cleanup() is called exactly
\* once before main() ends, and main() ends the way the polling call ended
\* whether or not cleanup() raised.
C4_CleanupOnceOutcomeKept ==
    /\ cleanupCalls <= 1
    /\ cleanupCalls = 1 => pollOutcome # "none"
    /\ pc = "done" /\ pollOutcome # "none" =>
          /\ cleanupCalls = 1
          /\ cleanupOutcome # "none"
          /\ pollOutcome = "ok" => result = "returned"
          /\ pollOutcome = "raise" => result = "PollingError"

C4_Witness ==
    /\ pc = "done" /\ pollOutcome = "ok" /\ cleanupOutcome = "raise"
    /\ cleanupCalls = 1 /\ result = "returned"

\* C5: whatever the outcomes of the app.bot store, of the router block and of
\* the hook block, none of them ends main(): the invocation stays running
\* through the three steps and every invocation that reached them has called
\* start_polling when it ends, with the outcome of the polling call.
C5_PatchFailuresNeverFatal ==
    /\ pc \in {"router", "hook", "startpoll", "polling", "cleanup"} => result = "none"
    /\ pc \in {"polling", "cleanup"} => polledBot = bot /\ bot # 0
    /\ pc = "done" /\ botAssign # "none" =>
          /\ polledBot = bot /\ bot # 0
          /\ routerResult # "none" /\ hookResult # "none"
          /\ result \in {"returned", "PollingError"}

C5_Witness ==
    /\ pc = "polling" /\ polledBot = bot /\ bot # 0
    /\ botAssign = "raise" /\ routerResult = "raise" /\ hookResult = "raise"

\* C6: a started listener is on host 0.0.0.0 and on the integer value of PORT
\* when PORT is set, on 8000 when it is unset, and on no other port.
C6_ListenerPort ==
    /\ sitePort # -1 =>
          /\ listener \in {"serving", "cleaned", "cleanup_failed"}
          /\ siteHost = "0.0.0.0"
          /\ sitePort = port
          /\ env_PORT = None => sitePort = 8000
          /\ env_PORT # None => IntParse(env_PORT.val).ok /\ sitePort = IntParse(env_PORT.val).val
          /\ env_PORT = Str(<<"8">>) => sitePort = 8
          /\ env_PORT = Str(<<"8", "0">>) => sitePort = 80
          /\ env_PORT = Str(<<"0", "8">>) => sitePort = 8
          /\ env_PORT = Str(<<" ", "8">>) => sitePort = 8
          /\ env_PORT = Str(<<"8", " ">>) => sitePort = 8
          /\ env_PORT = Str(<<"8", "8">>) => sitePort = 88
    /\ listener \in {"serving", "cleaned", "cleanup_failed"} => sitePort # -1
    /\ env_PORT \in {Str(<<>>), Str(<<"x">>), Str(<<"8", "x">>), Str(<<"-">>), Str(<<" ">>)} =>
          sitePort = -1 /\ listener = "none"

C6_Witness ==
    /\ listener = "serving" /\ pc = "polling"
    /\ env_PORT = Str(<<"8", "8">>) /\ sitePort = 88 /\ siteHost = "0.0.0.0"

\* C7: every GET / and GET /health the listener answers gets status 200 and
\* body "ok" from the one handler _health, wherever main() stands.
C7_HealthAnswersOk ==
    /\ lastRequest # NoRequest => routes = HealthRoutes /\ sitePort # -1
    /\ lastRequest.method = "GET" /\ lastRequest.path \in {"/", "/health"} =>
          /\ lastResponse.status = 200
          /\ lastResponse.body = "ok"
          /\ lastResponse.handler = "_health"

C7_Witness ==
    /\ pc = "polling" /\ listener = "serving"
    /\ lastRequest = [method |-> "GET", path |-> "/health"]
    /\ lastResponse.status = 200 /\ lastResponse.body = "ok"

\* C8: in every invocation the Bot is built before the listener exists, the
\* listener is started before start_polling is called, polling runs only
\* with the listener serving, and cleanup comes only after polling has ended.
C8_StartupOrder ==
    /\ pc \in InBuildBot => bot = 0 /\ listener = "none" /\ polledBot = 0
    /\ listener # "none" => bot = inv /\ bot # 0
    /\ polledBot # 0 => listener \in {"serving", "cleaned", "cleanup_failed"}
    /\ pc \in {"patch", "router", "hook", "startpoll", "polling", "cleanup"} =>
          listener = "serving"
    /\ listener \in {"cleaned", "cleanup_failed"} => pollOutcome # "none" /\ pc = "done"
    /\ result \in {"SetupError", "StartError"} => polledBot = 0

C8_Witness ==
    /\ pc = "polling" /\ listener = "serving" /\ polledBot = inv /\ inv = 2
    /\ lastResponse.status = 200

\* C9: the keyword arguments given to AiohttpSession are among the accepted
\* parameter names and among connector and trust_env; without a raise,
\* connector is there iff the connector exists and is accepted, trust_env iff
\* it is accepted; after a raise of the introspection they are empty.
C9_ProbedKwargs ==
    pc = "session" =>
       /\ kwargs \subseteq (params \cap {"connector", "trust_env"})
       /\ failAt = "none" =>
             /\ ("connector" \in kwargs) <=> (connector = "TCPConnector" /\ "connector" \in params)
             /\ ("trust_env" \in kwargs) <=> ("trust_env" \in params)
       /\ failAt # "none" => kwargs = {}

C9_Witness ==
    /\ pc = "session" /\ failAt = "trust_env_test"
    /\ connector = "TCPConnector" /\ "connector" \in params /\ kwargs = {}

\* C10: in an invocation whose app.bot store succeeded, app.bot is the Bot
\* this invocation built, from the store on, and it is the Bot given to
\* start_polling; without such a store app.bot is what it was when the
\* invocation started.
C10_AppBotIsPolledBot ==
    /\ botAssign = "ok" => app_bot = bot /\ bot = inv
    /\ botAssign # "ok" => app_bot = atStart.bot
    /\ polledBot # 0 => polledBot = bot /\ botAssign # "none"
    /\ polledBot # 0 /\ botAssign = "ok" => app_bot = polledBot
    /\ app_bot \in 0..inv

C10_Witness ==
    /\ inv = 2 /\ pc = "polling" /\ botAssign = "ok"
    /\ atStart.bot = 1 /\ app_bot = 2 /\ polledBot = 2

====
